---- MODULE Spec2Model ----
(***************************************************************************)
(* A model of ichnaea/log.py: the statsd metric-name derivation            *)
(* (quote_statsd_path), the request tween (log_tween_factory.log_tween)    *)
(* and the statsd clients (PingableStatsClient, DebugStatsClient).         *)
(*                                                                         *)
(* Conventions.                                                            *)
(*  - A Python str that the code takes apart character by character (a     *)
(*    request path) is a sequence of one-character strings; str(cs) is the *)
(*    TLA+ string it spells.  Metric names and datagrams are TLA+ strings. *)
(*  - None, '' and an empty list are all falsy in Python and the code only *)
(*    tests their truth value, so None is modelled by "" (metric_prefix)   *)
(*    and by <<>> (tags).                                                  *)
(*  - A Python number is [type |-> "int", v |-> n] or                      *)
(*    [type |-> "float", v |-> n]; a float's v counts units of 1/10000,    *)
(*    so 1000 * value is v / 10.                                           *)
(*  - A sample rate and a random() draw are counted in hundredths:         *)
(*    100 is the rate 1.                                                   *)
(***************************************************************************)
EXTENDS Integers, Sequences, FiniteSets, TLC

VARIABLES
    stats_client,   \* registry.stats_client: the configured statsd client
    msgs,           \* datagrams delivered (DebugStatsClient.msgs / the socket)
    raven_msgs,     \* exceptions captured by registry.raven_client
    last,           \* the last operation: its inputs and what it did
    path,           \* the argument of quote_statsd_path (SpecQuote)
    metric          \* its result (SpecQuote)

vars == <<stats_client, msgs, raven_msgs, last, path, metric>>

(***************************************************************************)
(* Bounds of the model.                                                    *)
(***************************************************************************)
\* msgs and raven_msgs together hold at most this many entries before a _clear
MaxEvents == 3
\* the longest request path of SpecQuote
MaxPathLen == 4

(***************************************************************************)
(* Python strings.                                                         *)
(***************************************************************************)
RECURSIVE str(_)
str(cs) == IF cs = <<>> THEN "" ELSE Head(cs) \o str(Tail(cs))

\* s.replace(old, new), for one-character old and new
replace(s, old, new) == [i \in 1..Len(s) |-> IF s[i] = old THEN new ELSE s[i]]

RECURSIVE lstrip(_, _)
\* s.lstrip(c): every leading c is removed
lstrip(s, c) == IF s # <<>> /\ Head(s) = c THEN lstrip(Tail(s), c) ELSE s

\* a plausible slip: only one leading c is removed
lstrip_once(s, c) == IF s # <<>> /\ Head(s) = c THEN Tail(s) ELSE s

RECURSIVE join(_, _)
\* sep.join(xs)
join(sep, xs) ==
    IF xs = <<>> THEN ""
    ELSE IF Len(xs) = 1 THEN xs[1]
    ELSE xs[1] \o sep \o join(sep, Tail(xs))

\* bool(x) for a str or a list (None is modelled by the empty one)
bool(x) == Len(x) > 0

\* str(n) for a float n counted in hundredths, as Python prints it: 0.5, 0.25, 1.5
float_str(n) ==
    LET frac == n % 100
    IN  ToString(n \div 100) \o "." \o
        (IF frac % 10 = 0 THEN ToString(frac \div 10)
         ELSE IF frac < 10 THEN "0" \o ToString(frac)
         ELSE ToString(frac))

\* the interpreters the code runs on
PythonVersions == {2, 3}

\* int(round(num / den)) for den > 0: Python 2 rounds a tie away from zero,
\* Python 3 rounds it to the even neighbour
round(num, den, py) ==
    LET fl == num \div den
        r2 == 2 * (num - fl * den)
    IN  IF r2 < den THEN fl
        ELSE IF r2 > den THEN fl + 1
        ELSE IF py = 2 THEN (IF num >= 0 THEN fl + 1 ELSE fl)
        ELSE (IF fl % 2 = 0 THEN fl ELSE fl + 1)

PyInt(n) == [type |-> "int", v |-> n]
PyFloat(n) == [type |-> "float", v |-> n]

(***************************************************************************)
(* quote_statsd_path                                                       *)
(***************************************************************************)
\* a plausible slip: a single leading '.' is stripped
quote_statsd_path_strip_one(p) ==
    LET m == replace(lstrip_once(replace(p, "/", "."), "."), "@", "-")
    IN  IF bool(m) THEN "request." \o str(m) ELSE "request"

quote_statsd_path(p) ==
    LET m == replace(lstrip(replace(p, "/", "."), "."), "@", "-")
    IN  IF bool(m) THEN "request." \o str(m) ELSE "request"

\* the characters a path of the model is made of
Chars == {"/", ".", "@", "a"}

RECURSIVE SeqsUpTo(_, _)
SeqsUpTo(S, n) ==
    IF n = 0 THEN {<<>>}
    ELSE LET shorter == SeqsUpTo(S, n - 1)
         IN  shorter \cup {Append(s, c) : s \in {t \in shorter : Len(t) = n - 1}, c \in S}

\* request paths: the empty path, and the paths that start with '/'
Paths == {p \in SeqsUpTo(Chars, MaxPathLen) : p = <<>> \/ p[1] = "/"}

\* the value of metric before quote_statsd_path has been applied
NotComputed == "?"

(***************************************************************************)
(* The statsd clients.                                                     *)
(***************************************************************************)
\* PingableStatsClient.__init__ / DebugStatsClient.__init__ with the default
\* host, port and tag_prefix
StatsClients ==
    [kind : {"PingableStatsClient", "DebugStatsClient"},
     host : {"localhost"}, port : {8125},
     metric_prefix : {"", "location"}, tag_prefix : {""},
     tag_support : BOOLEAN]

\* what a call of a client method did: the datagrams it handed to the socket
\* (each delivered or lost) and whether an exception left the call
Done(sent) == [sent |-> sent, raised |-> FALSE]
Raised(sent) == [sent |-> sent, raised |-> TRUE]
Datagram(packet, ok) == [packet |-> packet, delivered |-> ok]

\* DogStatsd._send_to_server, which PingableStatsClient inherits: a socket
\* error is caught there and the datagram is lost
DogStatsd_send_to_server(packet, ok) == Done(<<Datagram(packet, ok)>>)

\* DebugStatsClient._send_to_server: the packet is appended to msgs
_send_to_server(packet) == Done(<<Datagram(packet, TRUE)>>)

\* self._send(encoded)
_send(self, packet, ok) ==
    IF self.kind = "DebugStatsClient" THEN _send_to_server(packet)
    ELSE DogStatsd_send_to_server(packet, ok)

\* a plausible slip: the datagram goes straight to the socket, as in ping, with
\* nothing to catch socket.error
_report_direct_socket(self, m, metric_type, value, tags, sample_rate, rnd, ok) ==
    IF sample_rate # 100 /\ rnd > sample_rate THEN Done(<<>>)
    ELSE LET payload ==
                 (IF bool(self.metric_prefix) THEN <<self.metric_prefix \o ".">> ELSE <<>>)
                 \o <<m, ":", ToString(value), "|", metric_type>>
                 \o (IF sample_rate # 100 THEN <<"|@", float_str(sample_rate)>> ELSE <<>>)
                 \o (IF bool(tags) /\ self.tag_support
                     THEN <<"|#", join(",", tags)>> ELSE <<>>)
             sent == <<Datagram(join("", payload), ok)>>
         IN  IF ok THEN Done(sent) ELSE Raised(sent)

\* a plausible slip: tags are appended whether or not tag_support is set
_report_tags_always(self, m, metric_type, value, tags, sample_rate, rnd, ok) ==
    IF sample_rate # 100 /\ rnd > sample_rate THEN Done(<<>>)
    ELSE LET payload ==
                 (IF bool(self.metric_prefix) THEN <<self.metric_prefix \o ".">> ELSE <<>>)
                 \o <<m, ":", ToString(value), "|", metric_type>>
                 \o (IF sample_rate # 100 THEN <<"|@", float_str(sample_rate)>> ELSE <<>>)
                 \o (IF bool(tags) THEN <<"|#", join(",", tags)>> ELSE <<>>)
         IN  _send(self, join("", payload), ok)

\* PingableStatsClient._report; rnd is the value random() returns, ok whether
\* the socket takes the datagram
_report(self, m, metric_type, value, tags, sample_rate, rnd, ok) ==
    IF sample_rate # 100 /\ rnd > sample_rate THEN Done(<<>>)
    ELSE LET payload ==
                 (IF bool(self.metric_prefix) THEN <<self.metric_prefix \o ".">> ELSE <<>>)
                 \o <<m, ":", ToString(value), "|", metric_type>>
                 \o (IF sample_rate # 100 THEN <<"|@", float_str(sample_rate)>> ELSE <<>>)
                 \o (IF bool(tags) /\ self.tag_support
                     THEN <<"|#", join(",", tags)>> ELSE <<>>)
         IN  _send(self, join("", payload), ok)

\* PingableStatsClient.incr: increment(metric, value) with no tags and rate 1
incr(self, m, value, ok) == _report(self, m, "c", value, <<>>, 100, 0, ok)

\* a plausible slip: every value is taken for seconds and scaled
timing_always_scales(self, m, value, tags, sample_rate, py, rnd, ok) ==
    _report(self, m, "ms", round(value.v, 10, py), tags, sample_rate, rnd, ok)

\* PingableStatsClient.timing
timing(self, m, value, tags, sample_rate, py, rnd, ok) ==
    LET v == IF value.type = "float" THEN round(value.v, 10, py) ELSE value.v
    IN  _report(self, m, "ms", v, tags, sample_rate, rnd, ok)

\* what ping did: its return value, whether it raised, what it sent, the client after
Pinged(self, ret, raised, sent) ==
    [ret |-> ret, raised |-> raised, sent |-> sent, self |-> self]

\* a plausible slip: socket.error is not caught
ping_uncaught(self, ok) ==
    LET stat == IF bool(self.metric_prefix)
                THEN self.metric_prefix \o "." \o "monitor.ping:1c"
                ELSE "monitor.ping:1c"
    IN  IF ok THEN Pinged(self, TRUE, FALSE, <<Datagram(stat, TRUE)>>)
        ELSE Pinged(self, FALSE, TRUE, <<Datagram(stat, FALSE)>>)

\* PingableStatsClient.ping
ping(self, ok) ==
    LET stat == IF bool(self.metric_prefix)
                THEN self.metric_prefix \o "." \o "monitor.ping:1c"
                ELSE "monitor.ping:1c"
    IN  IF ok THEN Pinged(self, TRUE, FALSE, <<Datagram(stat, TRUE)>>)
        ELSE Pinged(self, FALSE, FALSE, <<Datagram(stat, FALSE)>>)

\* DebugStatsClient.ping
DebugStatsClient_ping(self) == Pinged(self, TRUE, FALSE, <<>>)


(***************************************************************************)
(* The handler's results.                                                  *)
(***************************************************************************)
Response(status_code) == [kind |-> "response", status_code |-> status_code]

\* An exception instance: its class, the classes isinstance() finds it in, and
\* its status_code attribute when it has one.  Every exception is a BaseException.
Exc(cls, bases, has_status_code, status_code) ==
    [kind |-> "exception", cls |-> cls, bases |-> bases,
     has_status_code |-> has_status_code, status_code |-> status_code]

isinstance(exc, cls) == cls \in exc.bases

\* ichnaea.exceptions.BaseClientError and its subclasses: HTTP errors with a
\* declared status code, some of them pyramid HTTPClientErrors as well
BaseClientErrors ==
    {Exc("LocationNotFound",
         {"BaseClientError", "HTTPClientError", "HTTPException", "Exception"}, TRUE, 404),
     Exc("BaseClientError", {"BaseClientError", "HTTPException", "Exception"}, TRUE, 400)}

\* pyramid.httpexceptions: a redirect, a generic client error, a server error
HTTPExceptions ==
    {Exc("HTTPFound", {"HTTPRedirection", "HTTPException", "Exception"}, TRUE, 302),
     Exc("HTTPNotFound", {"HTTPClientError", "HTTPException", "Exception"}, TRUE, 404),
     Exc("HTTPServiceUnavailable", {"HTTPException", "Exception"}, TRUE, 503)}

\* anything else a handler raises: an Exception without a status_code, one with
\* a status_code that is no pyramid HTTPException (a webob.exc error), and a
\* BaseException that is no Exception
OtherExceptions ==
    {Exc("ValueError", {"Exception"}, FALSE, 0),
     Exc("webob.exc.HTTPBadGateway", {"Exception"}, TRUE, 502),
     Exc("SystemExit", {}, FALSE, 0)}

\* socket.error, were it to leave a stats client call
SocketError == Exc("socket.error", {"Exception"}, FALSE, 0)

HandlerResults ==
    {Response(200), Response(404)}
        \cup BaseClientErrors \cup HTTPExceptions \cup OtherExceptions

TweenPaths ==
    {<<"/">>,
     <<"/", "v", "1", "/", "g", "e", "o">>,
     <<"/", "/", "a", "@", "b">>}

Requests == [path : TweenPaths]

\* time.time() - start, a float counted in units of 1/10000 s
Elapsed == {-5, 5, 1234}

(***************************************************************************)
(* log_tween                                                               *)
(***************************************************************************)
\* a call log_tween makes on a collaborator
Call(fn, name, value) == [fn |-> fn, name |-> name, value |-> value]

Return(response) == [how |-> "return", value |-> response]
Raise(exc) == [how |-> "raise", value |-> exc]

\* timer_send(): the call it makes and what the call did
timer_send(stats, statsd_path, elapsed, py, ok) ==
    LET duration == round(elapsed, 10, py)
    IN  [call |-> Call("timing", statsd_path, duration),
         did |-> timing(stats, statsd_path, PyInt(duration), <<>>, 100, py, 0, ok)]

\* a plausible slip: the status code is left out of the counter's name
counter_send_no_status(stats, statsd_path, status_code, ok) ==
    [call |-> Call("incr", statsd_path, 1), did |-> incr(stats, statsd_path, 1, ok)]

\* counter_send(status_code)
counter_send(stats, statsd_path, status_code, ok) ==
    LET name == statsd_path \o "." \o ToString(status_code)
    IN  [call |-> Call("incr", name, 1), did |-> incr(stats, name, 1, ok)]

\* a plausible slip: HTTPClientError is tested before BaseClientError
handler_branch_client_first(result) ==
    IF result.kind = "response" THEN "else"
    ELSE IF isinstance(result, "HTTPClientError") THEN "ignored"
    ELSE IF isinstance(result, "BaseClientError") \/ isinstance(result, "HTTPRedirection")
         THEN "expected"
    ELSE IF isinstance(result, "Exception") THEN "unexpected"
    ELSE "uncaught"

\* a plausible slip: the clause for HTTPClientError is missing
handler_branch_no_ignore(result) ==
    IF result.kind = "response" THEN "else"
    ELSE IF isinstance(result, "BaseClientError") \/ isinstance(result, "HTTPRedirection")
         THEN "expected"
    ELSE IF isinstance(result, "Exception") THEN "unexpected"
    ELSE "uncaught"

\* the clause of the try statement that handles the handler's result
handler_branch(result) ==
    IF result.kind = "response" THEN "else"
    ELSE IF isinstance(result, "BaseClientError") \/ isinstance(result, "HTTPRedirection")
         THEN "expected"
    ELSE IF isinstance(result, "HTTPClientError") THEN "ignored"
    ELSE IF isinstance(result, "Exception") THEN "unexpected"
    ELSE "uncaught"

\* a plausible slip: the status is always the default
status_always_default(exc) == 500

\* the status an unexpected exception is counted under
status(exc) == IF isinstance(exc, "HTTPException") THEN exc.status_code ELSE 500

\* a plausible slip: an exception is turned into a response
propagate_swallows(result) ==
    IF result.kind = "response" THEN Return(result) ELSE Return(Response(500))

\* how log_tween ends: return response, or a bare raise of the handler's exception
propagate(result) ==
    IF result.kind = "response" THEN Return(result) ELSE Raise(result)

\* what a run of log_tween did: its calls in order, the datagrams, how it ended
Ran(trace, sent, exit) == [trace |-> trace, sent |-> sent, exit |-> exit]

\* log_tween(request), with the handler's result, the time it took, the
\* interpreter, and whether the socket takes the first and the second datagram
log_tween(stats, request, result, elapsed, py, oks) ==
    LET statsd_path == quote_statsd_path(request.path)
        branch == handler_branch(result)
        t == timer_send(stats, statsd_path, elapsed, py, oks[1])
        status_code == IF branch = "unexpected" THEN status(result) ELSE result.status_code
        c == counter_send(stats, statsd_path, status_code, oks[2])
        capture == IF branch = "unexpected"
                   THEN <<Call("captureException", result.cls, 0)>> ELSE <<>>
    IN  IF branch \in {"ignored", "uncaught"} THEN Ran(<<>>, <<>>, propagate(result))
        ELSE IF t.did.raised THEN Ran(<<t.call>>, t.did.sent, Raise(SocketError))
        ELSE IF c.did.raised
             THEN Ran(<<t.call, c.call>>, t.did.sent \o c.did.sent, Raise(SocketError))
        ELSE Ran(<<t.call, c.call>> \o capture, t.did.sent \o c.did.sent,
                 propagate(result))

(***************************************************************************)
(* The state machine.                                                      *)
(***************************************************************************)
\* the packets of the datagrams that were delivered
Delivered(sent) ==
    LET ok == SelectSeq(sent, LAMBDA d : d.delivered)
    IN  [i \in 1..Len(ok) |-> ok[i].packet]

\* the calls of fn in a trace
CallsOf(trace, fn) == SelectSeq(trace, LAMBDA c : c.fn = fn)

\* no call is in progress
Idle == [op |-> "idle"]

\* the caller may start an operation: none is in progress, and there is room
\* for what one operation adds at most, two datagrams and one capture
Room ==
    /\ last = Idle
    /\ Len(msgs) + Len(raven_msgs) + 3 <= MaxEvents

\* whether the socket takes a datagram: DebugStatsClient has no socket
SocketOutcomes(self) == IF self.kind = "DebugStatsClient" THEN {TRUE} ELSE BOOLEAN

TimingValues ==
    {PyInt(250), PyFloat(5), PyFloat(2500), PyFloat(12345), PyFloat(-15)}
TagLists == {<<>>, <<"a:1", "b">>}
SampleRates == {50, 100, 150}
Draws == {0, 50, 75}

Init ==
    /\ stats_client \in StatsClients
    /\ msgs = <<>>
    /\ raven_msgs = <<>>
    /\ last = Idle
    /\ path = <<>>
    /\ metric = NotComputed

\* a request passes through the tween
LogTween ==
    /\ Room
    /\ \E request \in Requests, result \in HandlerResults, elapsed \in Elapsed,
          py \in PythonVersions, oks \in [1..2 -> SocketOutcomes(stats_client)] :
          LET r == log_tween(stats_client, request, result, elapsed, py, oks)
          IN  /\ msgs' = msgs \o Delivered(r.sent)
              /\ raven_msgs' =
                     raven_msgs \o [i \in 1..Len(CallsOf(r.trace, "captureException"))
                                      |-> result]
              /\ last' = [op |-> "log_tween", request |-> request, result |-> result,
                          elapsed |-> elapsed, trace |-> r.trace, sent |-> r.sent,
                          exit |-> r.exit]
    /\ UNCHANGED <<stats_client, path, metric>>

\* stats_client.timing(metric, value, tags, sample_rate)
Timing ==
    /\ Room
    /\ \E value \in TimingValues, tags \in TagLists, sample_rate \in SampleRates,
          py \in PythonVersions, rnd \in Draws, ok \in SocketOutcomes(stats_client) :
          LET r == timing(stats_client, "insert", value, tags, sample_rate, py, rnd, ok)
          IN  /\ msgs' = msgs \o Delivered(r.sent)
              /\ last' = [op |-> "timing", name |-> "insert", value |-> value,
                          tags |-> tags, sample_rate |-> sample_rate, rnd |-> rnd,
                          sent |-> r.sent, raised |-> r.raised]
    /\ UNCHANGED <<stats_client, raven_msgs, path, metric>>

\* stats_client.incr(metric, value)
Incr ==
    /\ Room
    /\ \E value \in {1, 20}, ok \in SocketOutcomes(stats_client) :
          LET r == incr(stats_client, "items", value, ok)
          IN  /\ msgs' = msgs \o Delivered(r.sent)
              /\ last' = [op |-> "incr", name |-> "items", value |-> PyInt(value),
                          tags |-> <<>>, sample_rate |-> 100, rnd |-> 0,
                          sent |-> r.sent, raised |-> r.raised]
    /\ UNCHANGED <<stats_client, raven_msgs, path, metric>>

\* stats_client.ping()
Ping ==
    /\ Room
    /\ \E ok \in SocketOutcomes(stats_client) :
          LET r == IF stats_client.kind = "DebugStatsClient"
                   THEN DebugStatsClient_ping(stats_client)
                   ELSE ping(stats_client, ok)
          IN  /\ stats_client' = r.self
              /\ msgs' = msgs \o Delivered(r.sent)
              /\ last' = [op |-> "ping", before |-> stats_client, ret |-> r.ret,
                          raised |-> r.raised, sent |-> r.sent]
    /\ UNCHANGED <<raven_msgs, path, metric>>

\* DebugStatsClient._clear
StatsClear ==
    /\ stats_client.kind = "DebugStatsClient"
    /\ msgs # <<>>
    /\ msgs' = <<>>
    /\ UNCHANGED <<stats_client, raven_msgs, last, path, metric>>

\* DebugRavenClient._clear
RavenClear ==
    /\ raven_msgs # <<>>
    /\ raven_msgs' = <<>>
    /\ UNCHANGED <<stats_client, msgs, last, path, metric>>

\* the operation in progress is over: control is back with the caller
Returned ==
    /\ last # Idle
    /\ last' = Idle
    /\ UNCHANGED <<stats_client, msgs, raven_msgs, path, metric>>

Next == LogTween \/ Timing \/ Incr \/ Ping \/ StatsClear \/ RavenClear \/ Returned

Spec == Init /\ [][Next]_vars

(***************************************************************************)
(* quote_statsd_path alone, over every path of the bound.                  *)
(***************************************************************************)
InitQuote ==
    /\ stats_client = [kind |-> "DebugStatsClient", host |-> "localhost", port |-> 8125,
                       metric_prefix |-> "", tag_prefix |-> "", tag_support |-> FALSE]
    /\ msgs = <<>>
    /\ raven_msgs = <<>>
    /\ last = Idle
    /\ path \in Paths
    /\ metric = NotComputed

\* metric = quote_statsd_path(path)
Quote ==
    /\ metric = NotComputed
    /\ metric' = quote_statsd_path(path)
    /\ UNCHANGED <<stats_client, msgs, raven_msgs, last, path>>

\* the next path
NextPath ==
    /\ metric # NotComputed
    /\ \E p \in Paths : path' = p
    /\ metric' = NotComputed
    /\ UNCHANGED <<stats_client, msgs, raven_msgs, last>>

NextQuote == Quote \/ NextPath

SpecQuote == InitQuote /\ [][NextQuote]_vars


(***************************************************************************)
(* Properties of log_tween.                                                *)
(***************************************************************************)
IsTween == last.op = "log_tween"

\* the handler raised an exception of one of these classes
Raises(classes) ==
    /\ IsTween
    /\ last.result.kind = "exception"
    /\ last.result.bases \cap classes # {}

\* the handler raised an exception of none of these classes
RaisesNoneOf(classes) ==
    /\ IsTween
    /\ last.result.kind = "exception"
    /\ last.result.bases \cap classes = {}

StatsdPath == quote_statsd_path(last.request.path)

\* log_tween called timing once, then incr once with the counter of this status
TimedAndCounted(status_code) ==
    /\ Len(last.trace) >= 2
    /\ last.trace[1].fn = "timing"
    /\ last.trace[1].name = StatsdPath
    /\ last.trace[2] = Call("incr", StatsdPath \o "." \o ToString(status_code), 1)
    /\ Len(CallsOf(last.trace, "timing")) = 1
    /\ Len(CallsOf(last.trace, "incr")) = 1
    /\ Len(last.sent) = 2

Reported == Len(CallsOf(last.trace, "captureException"))

\* C1: log_tween ends in exactly one of two ways, returning the very response
\* the handler returned or re-raising the very exception the handler raised.
C1_SameResponseOrSameException ==
    IsTween =>
        /\ last.exit.how \in {"return", "raise"}
        /\ last.exit.value = last.result
        /\ (last.exit.how = "return") = (last.result.kind = "response")
        /\ (last.exit.how = "raise") = (last.result.kind = "exception")

C1_Witness ==
    /\ IsTween
    /\ last.result.kind = "exception"
    /\ last.exit = Raise(last.result)
    /\ Reported = 1
    /\ \E i \in 1..Len(last.sent) : ~last.sent[i].delivered

\* C2 as stated: any exception that is no BaseClientError, HTTPRedirection or
\* HTTPClientError is timed, counted under its own status code if it carries
\* one and under 500 otherwise, reported once and then re-raised.
C2_AsStated ==
    RaisesNoneOf({"BaseClientError", "HTTPRedirection", "HTTPClientError"}) =>
        /\ TimedAndCounted(IF last.result.has_status_code
                           THEN last.result.status_code ELSE 500)
        /\ Reported = 1
        /\ last.trace[Len(last.trace)].fn = "captureException"
        /\ last.exit = Raise(last.result)

\* C2, amended: an exception derived from Exception that is no BaseClientError,
\* HTTPRedirection or HTTPClientError is timed once, counted once under its
\* status code if it is a pyramid HTTPException and under 500 otherwise,
\* reported once after both samples, and then re-raised.
C2_UnexpectedIsReported ==
    (/\ RaisesNoneOf({"BaseClientError", "HTTPRedirection", "HTTPClientError"})
     /\ isinstance(last.result, "Exception")) =>
        /\ TimedAndCounted(IF isinstance(last.result, "HTTPException")
                           THEN last.result.status_code ELSE 500)
        /\ Reported = 1
        /\ Len(last.trace) = 3
        /\ last.trace[3].fn = "captureException"
        /\ last.exit = Raise(last.result)

C2_Witness ==
    /\ RaisesNoneOf({"BaseClientError", "HTTPRedirection", "HTTPClientError"})
    /\ last.result.cls = "HTTPServiceUnavailable"
    /\ last.trace[2].name = StatsdPath \o ".503"
    /\ last.trace[3].fn = "captureException"
    /\ raven_msgs = <<last.result>>
    /\ last.exit.how = "raise"

\* C3: a BaseClientError or an HTTPRedirection, also one that is an
\* HTTPClientError, is timed once and counted once under its declared status
\* code, never reported, and re-raised.
C3_ExpectedIsCountedNotReported ==
    Raises({"BaseClientError", "HTTPRedirection"}) =>
        /\ TimedAndCounted(last.result.status_code)
        /\ Reported = 0
        /\ Len(last.trace) = 2
        /\ last.exit = Raise(last.result)

C3_Witness ==
    /\ Raises({"BaseClientError"})
    /\ Raises({"HTTPClientError"})
    /\ last.trace[2].name = StatsdPath \o ".404"
    /\ Reported = 0
    /\ last.exit.how = "raise"

\* C4: a generic HTTPClientError that is neither a BaseClientError nor an
\* HTTPRedirection is re-raised with no call on the stats client and none on
\* the error reporter.
C4_IgnoredMakesNoCall ==
    (/\ Raises({"HTTPClientError"})
     /\ RaisesNoneOf({"BaseClientError", "HTTPRedirection"})) =>
        /\ last.trace = <<>>
        /\ last.sent = <<>>
        /\ last.exit = Raise(last.result)

C4_Witness ==
    /\ Raises({"HTTPClientError"})
    /\ last.result.cls = "HTTPNotFound"
    /\ last.trace = <<>>
    /\ msgs = <<>>
    /\ raven_msgs = <<>>
    /\ last.exit.how = "raise"

\* the handler's result is the one the tween ignores
Ignored ==
    /\ Raises({"HTTPClientError"})
    /\ RaisesNoneOf({"BaseClientError", "HTTPRedirection"})

\* a response is timed once under quote_statsd_path(request.path), counted once
\* under that name, '.' and its status code, not reported, and returned
ResponseIsTimedAndCounted ==
    (IsTween /\ last.result.kind = "response") =>
        /\ TimedAndCounted(last.result.status_code)
        /\ Len(last.trace) = 2
        /\ Reported = 0
        /\ last.exit = Return(last.result)

\* C5 as stated: a response is timed and counted as above, and on every outcome
\* other than Ignored the timing sample is emitted exactly once.
C5_AsStated ==
    /\ ResponseIsTimedAndCounted
    /\ (IsTween /\ ~Ignored) => Len(CallsOf(last.trace, "timing")) = 1

\* C5, amended: a response is timed and counted as above; when the handler
\* returns, or raises an exception derived from Exception that is not Ignored,
\* the timing sample is emitted exactly once; an exception that is not derived
\* from Exception passes through with no sample.
C5_TimedOncePerRequest ==
    /\ ResponseIsTimedAndCounted
    /\ (/\ IsTween
        /\ ~Ignored
        /\ last.result.kind = "exception" => isinstance(last.result, "Exception"))
           => Len(CallsOf(last.trace, "timing")) = 1
    /\ (IsTween /\ last.result.kind = "exception"
            /\ ~isinstance(last.result, "Exception"))
           => last.trace = <<>>

C5_Witness ==
    /\ IsTween
    /\ last.request.path = <<"/", "v", "1", "/", "g", "e", "o">>
    /\ last.result = Response(200)
    /\ last.trace[1].name = "request.v1.geo"
    /\ last.trace[2].name = "request.v1.geo.200"
    /\ Len(last.trace) = 2
    /\ last.exit.how = "return"

\* the stats calls a result makes log_tween issue
StatsCalls(result) == IF handler_branch(result) \in {"ignored", "uncaught"} THEN 0 ELSE 2

\* C6: a datagram the socket does not take is lost and nothing more: no call of
\* the stats client raises, the tween still makes every call of its
\* classification and ends with the handler's own response or exception, and
\* each sample is handed to the socket once, not again.
C6_SendFailureIsDiscarded ==
    /\ IsTween =>
           /\ last.exit.value = last.result
           /\ Len(last.sent) = Len(CallsOf(last.trace, "timing"))
                                 + Len(CallsOf(last.trace, "incr"))
           /\ Len(last.sent) = StatsCalls(last.result)
           /\ Reported = IF handler_branch(last.result) = "unexpected" THEN 1 ELSE 0
    /\ last.op \in {"timing", "incr"} => (~last.raised /\ Len(last.sent) <= 1)

C6_Witness ==
    /\ IsTween
    /\ Len(last.sent) = 2
    /\ ~last.sent[1].delivered
    /\ ~last.sent[2].delivered
    /\ msgs = <<>>
    /\ Reported = 1
    /\ last.exit = Raise(last.result)

(***************************************************************************)
(* Properties of quote_statsd_path (SpecQuote).                            *)
(***************************************************************************)
\* the number of leading characters of p that are '/' or '.'
RECURSIVE Leading(_)
Leading(p) ==
    IF p # <<>> /\ Head(p) \in {"/", "."} THEN 1 + Leading(Tail(p)) ELSE 0

\* C7 as stated: 'request.' and the path with every '/' replaced by '.', a
\* single leading '.' stripped and every '@' replaced by '-'; 'request' when
\* that string is empty.
C7_AsStated ==
    metric # NotComputed =>
        LET m == replace(lstrip_once(replace(path, "/", "."), "."), "@", "-")
        IN  metric = IF m = <<>> THEN "request" ELSE "request." \o str(m)

\* C7, amended: every leading '.' is stripped, so the metric name is 'request.'
\* and what follows the leading run of '/' and '.' characters of the path, with
\* '/' replaced by '.' and '@' by '-'; 'request' when nothing follows.
C7_MetricName ==
    metric # NotComputed =>
        LET k == Leading(path)
            rest == [i \in 1..(Len(path) - k) |->
                        CASE path[i + k] = "/" -> "."
                          [] path[i + k] = "@" -> "-"
                          [] OTHER -> path[i + k]]
        IN  metric = IF Len(path) = k THEN "request" ELSE "request." \o str(rest)

C7_Witness ==
    /\ path = <<"/", "/", "a">>
    /\ metric = "request.a"

(***************************************************************************)
(* Properties of the stats client.                                         *)
(***************************************************************************)
IsReport == last.op \in {"timing", "incr"}

\* the sample is dropped: its rate is not 1 and the draw exceeds it
Dropped == last.sample_rate # 100 /\ last.rnd > last.sample_rate

\* [prefix.]name:value|kindcode[|@sampleRate][|#tag1,tag2,...]
Sample(value) ==
    (IF stats_client.metric_prefix = "location" THEN "location." ELSE "")
        \o last.name \o ":" \o ToString(value) \o "|"
        \o (IF last.op = "timing" THEN "ms" ELSE "c")
        \o (CASE last.sample_rate = 50 -> "|@0.5"
              [] last.sample_rate = 150 -> "|@1.5"
              [] OTHER -> "")
        \o (IF last.tags # <<>> /\ stats_client.tag_support
            THEN "|#" \o join(",", last.tags) ELSE "")

\* the values a sample of the last call may carry
WireValues ==
    IF last.value.type = "float"
    THEN {r \in (last.value.v \div 10 - 1)..(last.value.v \div 10 + 1) :
              /\ 10 * r - last.value.v <= 5
              /\ last.value.v - 10 * r <= 5}
    ELSE {last.value.v}

\* C8: what _report transmits is the one string
\* [prefix.]name:value|kindcode[|@sampleRate][|#tags]; with sample rate 1
\* exactly one sample is transmitted; with another rate the sample is dropped,
\* with no transmission and no error, exactly when the draw exceeds the rate.
C8_SampleFormat ==
    IsReport =>
        /\ ~last.raised
        /\ Dropped => last.sent = <<>>
        /\ ~Dropped =>
               /\ Len(last.sent) = 1
               /\ \E v \in WireValues : last.sent[1].packet = Sample(v)

C8_Witness ==
    /\ last.op = "timing"
    /\ last.sample_rate = 50
    /\ last.rnd = 50
    /\ last.sent = <<Datagram("location.insert:250|ms|@0.5|#a:1,b", TRUE)>>
    /\ msgs = <<"location.insert:250|ms|@0.5|#a:1,b">>

C8_WitnessDropped ==
    /\ last.op = "timing"
    /\ Dropped
    /\ last.sent = <<>>

\* C9: timing transmits a float v, in seconds, as the integer round(1000 v),
\* which is within 1/2 of 1000 v, and an integer unchanged; the integer
\* duration log_tween passes to timing is the rounded elapsed time in
\* milliseconds and it is the value of the datagram.
C9_TimingInMilliseconds ==
    /\ (last.op = "timing" /\ ~Dropped) =>
           \E r \in WireValues : last.sent[1].packet = Sample(r)
    /\ (IsTween /\ last.trace # <<>>) =>
           LET d == last.trace[1].value
           IN  /\ 10 * d - last.elapsed <= 5
               /\ last.elapsed - 10 * d <= 5
               /\ last.sent[1].packet =
                      (IF stats_client.metric_prefix = "location" THEN "location." ELSE "")
                          \o StatsdPath \o ":" \o ToString(d) \o "|ms"

C9_Witness ==
    /\ last.op = "timing"
    /\ last.value = PyFloat(12345)
    /\ last.tags = <<>>
    /\ last.sample_rate = 100
    /\ stats_client.metric_prefix = ""
    /\ last.sent[1].packet = "insert:1235|ms"

C9_WitnessTween ==
    /\ IsTween
    /\ last.elapsed = 1234
    /\ last.request.path = <<"/">>
    /\ stats_client.metric_prefix = ""
    /\ last.sent # <<>>
    /\ last.sent[1].packet = "request:123|ms"

\* C10: ping never raises; PingableStatsClient.ping hands the one literal
\* sample, qualified by the metric prefix when there is one, to the socket and
\* returns whether the socket took it; the client is left as it was.
C10_PingNeverRaises ==
    last.op = "ping" =>
        /\ ~last.raised
        /\ stats_client = last.before
        /\ stats_client.kind = "PingableStatsClient" =>
               /\ Len(last.sent) = 1
               /\ last.sent[1].packet =
                      (IF stats_client.metric_prefix = "location"
                       THEN "location.monitor.ping:1c" ELSE "monitor.ping:1c")
               /\ last.ret = last.sent[1].delivered
        /\ stats_client.kind = "DebugStatsClient" => (last.ret /\ last.sent = <<>>)

C10_Witness ==
    /\ last.op = "ping"
    /\ stats_client.kind = "PingableStatsClient"
    /\ last.ret = FALSE
    /\ ~last.raised
    /\ last.sent = <<Datagram("location.monitor.ping:1c", FALSE)>>
    /\ msgs = <<>>

====
